---------------------------- MODULE Spec2Model ----------------------------
(***************************************************************************)
(* CapeEco: the capeeco storage schema (scripts/schema.sql) as a catalog   *)
(* built by the statements of the script, the rows the relations hold      *)
(* under the constraints the catalog declares, the staged load of the      *)
(* source datasets into the production relations, and the derived join     *)
(* relations the resolver rebuilds.                                        *)
(***************************************************************************)
EXTENDS Integers, Sequences, FiniteSets, TLC

VARIABLES
    cat,        \* the catalog: extensions, schemas, enum types, relations, constraints
    tbl,        \* committed rows of every relation, in heap order
    setup,      \* runs of the schema script so far, and what the last run met
    last,       \* the last INSERT statement and whether it was accepted
    phase,      \* per dataset: where its load run stands
    snapshot,   \* per dataset: the production rows when its load run began
    snapVer,    \* per dataset: the production relation's version at that moment
    prodVer,    \* per production relation: number of committed promotions
    work,       \* per dataset: the rows the promotion transaction has written, uncommitted
    pending,    \* per dataset: validated staged rows the transaction has still to insert
    dropped,    \* per dataset: staged rows dropped by validation (counted)
    touched,    \* per dataset: the database objects its load run has written
    versions,   \* per production relation: every contents a commit has published
    obs,        \* the last read of a production relation by a concurrent reader
    runs,       \* load runs started so far
    resolved,   \* resolver runs completed so far
    ui          \* the front end: the sidebar's state, the browser's storage and location

vars == <<cat, tbl, setup, last, phase, snapshot, snapVer, prodVer, work,
          pending, dropped, touched, versions, obs, runs, resolved, ui>>

\* Everything but the front end.
dbVars == <<cat, tbl, setup, last, phase, snapshot, snapVer, prodVer, work,
            pending, dropped, touched, versions, obs, runs, resolved>>

loadVars == <<phase, snapshot, snapVer, prodVer, work, pending, dropped,
              touched, versions, obs, runs, resolved, ui>>

-----------------------------------------------------------------------------
(* Bounds of the model *)

MaxDbRows == 2      \* rows the writers of SchemaSpec may hold in the database at once
MaxSetups == 2      \* runs of the schema script in one behaviour
MaxStaged == 2      \* rows staged by one load run
MaxRuns == 2        \* load runs started in one behaviour
MaxDerived == 2     \* rows the derived relations may hold at once
MaxResolves == 2    \* resolver runs in one behaviour
MaxInFlight == 2    \* requests of the sidebar in flight at once
MaxCalculations == 2    \* offset calculations stored
MaxRequests == 2    \* requests of the API client awaiting their response
MaxStarts == 2    \* starts (page loads) of the application in one behaviour
MaxLogins == 2    \* login and register requests awaiting their response
MaxSearches == 2    \* search requests awaiting their response
MaxResults == 2    \* results in one search response
MaxBurst == 2    \* keystrokes counted in one burst

-----------------------------------------------------------------------------
(* Values *)

NULL == "NULL"

\* Geometry values: type, SRID tag and validity of a PostGIS geometry.
Geoms == {"MP4326", "MP3857", "MPx4326", "MPx3857", "PG4326", "PT4326", "PT3857"}

GType(g) ==
    CASE g \in {"MP4326", "MP3857", "MPx4326", "MPx3857"} -> "MultiPolygon"
      [] g = "PG4326" -> "Polygon"
      [] g \in {"PT4326", "PT3857"} -> "Point"
      [] OTHER -> "NULL"

Srid(g) == IF g \in {"MP3857", "MPx3857", "PT3857"} THEN 3857 ELSE 4326

IsValidGeom(g) == g \in Geoms /\ g \notin {"MPx4326", "MPx3857"}

\* Column types of the script.
Ty(base, sub, srid) == [base |-> base, sub |-> sub, srid |-> srid]
BIGSERIAL == Ty("bigserial", "", 0)
SERIAL == Ty("serial", "", 0)
BIGINT == Ty("bigint", "", 0)
VARCHAR == Ty("varchar", "", 0)
BOOLEAN_T == Ty("boolean", "", 0)
DOUBLE == Ty("double precision", "", 0)
Enum(name) == Ty("enum", name, 0)
Geometry(gtype, srid) == Ty("geometry", gtype, srid)

\* A column of a CREATE TABLE: key is "p" (PRIMARY KEY), "u" (UNIQUE) or "";
\* ref is the relation a REFERENCES clause names, or "".
Column(c, t, nn, key, ref) ==
    [col |-> c, type |-> t, notnull |-> nn, key |-> key, ref |-> ref]

Table(name, cols, uniques) == [name |-> name, cols |-> cols, uniques |-> uniques]

-----------------------------------------------------------------------------
(* The statements of scripts/schema.sql.  Of every relation the columns that  *)
(* carry a constraint, a typed geometry or an enumeration are kept; the       *)
(* remaining columns are nullable and unconstrained.                          *)

\* The designation enumeration with CBA 2 declared before CBA 1c.
cba_category_swapped ==
    <<"PA", "CA", "CBA 1a", "CBA 1b", "CBA 2", "CBA 1c", "ESA 1", "ESA 2", "ONA">>

\* The designation enumeration with one label more.
cba_category_wider ==
    <<"PA", "CA", "CBA 1a", "CBA 1b", "CBA 1c", "CBA 2", "CBA 3", "ESA 1", "ESA 2",
      "ONA">>

cba_category ==
    <<"PA", "CA", "CBA 1a", "CBA 1b", "CBA 1c", "CBA 2", "ESA 1", "ESA 2", "ONA">>

ecosystem_threat_status == <<"CR", "EN", "VU", "LT">>

habitat_condition ==
    <<"Natural", "Good", "Fair", "Poor", "Irreversibly modified",
      "Natural aquatic habitat">>

\* The parcel relation without UNIQUE on sg26_code.
properties_nokey ==
    Table("properties",
          << Column("id", BIGSERIAL, FALSE, "p", ""),
             Column("sg26_code", VARCHAR, TRUE, "", ""),
             Column("erf_number", VARCHAR, FALSE, "", ""),
             Column("geom", Geometry("MultiPolygon", 4326), TRUE, "", "") >>,
          {})

properties ==
    Table("properties",
          << Column("id", BIGSERIAL, FALSE, "p", ""),
             Column("sg26_code", VARCHAR, TRUE, "u", ""),
             Column("erf_number", VARCHAR, FALSE, "", ""),
             Column("geom", Geometry("MultiPolygon", 4326), TRUE, "", "") >>,
          {})

biodiversity_areas ==
    Table("biodiversity_areas",
          << Column("id", BIGSERIAL, FALSE, "p", ""),
             Column("cba_category", Enum("cba_category"), TRUE, "", ""),
             Column("geom", Geometry("MultiPolygon", 4326), TRUE, "", "") >>,
          {})

ecosystem_types ==
    Table("ecosystem_types",
          << Column("id", BIGSERIAL, FALSE, "p", ""),
             Column("threat_status", Enum("ecosystem_threat_status"), FALSE, "", ""),
             Column("geom", Geometry("MultiPolygon", 4326), TRUE, "", "") >>,
          {})

wetlands ==
    Table("wetlands",
          << Column("id", BIGSERIAL, FALSE, "p", ""),
             Column("geom", Geometry("MultiPolygon", 4326), TRUE, "", "") >>,
          {})

urban_edges ==
    Table("urban_edges",
          << Column("id", BIGSERIAL, FALSE, "p", ""),
             Column("edge_type", VARCHAR, TRUE, "", ""),
             Column("geom", Geometry("Geometry", 4326), TRUE, "", "") >>,
          {})

zoning_overlays ==
    Table("zoning_overlays",
          << Column("id", BIGSERIAL, FALSE, "p", ""),
             Column("geom", Geometry("MultiPolygon", 4326), TRUE, "", "") >>,
          {})

heritage_sites ==
    Table("heritage_sites",
          << Column("id", BIGSERIAL, FALSE, "p", ""),
             Column("source", VARCHAR, TRUE, "", ""),
             Column("geom", Geometry("MultiPolygon", 4326), TRUE, "", "") >>,
          {})

address_points ==
    Table("address_points",
          << Column("id", BIGSERIAL, FALSE, "p", ""),
             Column("property_id", BIGINT, FALSE, "", ""),
             Column("geom", Geometry("Point", 4326), TRUE, "", "") >>,
          {})

solar_installations ==
    Table("solar_installations",
          << Column("id", BIGSERIAL, FALSE, "p", ""),
             Column("geom", Geometry("Point", 4326), TRUE, "", "") >>,
          {})

environmental_focus_areas ==
    Table("environmental_focus_areas",
          << Column("id", BIGSERIAL, FALSE, "p", ""),
             Column("geom", Geometry("MultiPolygon", 4326), TRUE, "", "") >>,
          {})

\* The join relation without UNIQUE(property_id, biodiversity_area_id).
property_biodiversity_nokey ==
    Table("property_biodiversity",
          << Column("id", BIGSERIAL, FALSE, "p", ""),
             Column("property_id", BIGINT, TRUE, "", "properties"),
             Column("biodiversity_area_id", BIGINT, TRUE, "", "biodiversity_areas"),
             Column("cba_category", Enum("cba_category"), TRUE, "", "") >>,
          {})

property_biodiversity ==
    Table("property_biodiversity",
          << Column("id", BIGSERIAL, FALSE, "p", ""),
             Column("property_id", BIGINT, TRUE, "", "properties"),
             Column("biodiversity_area_id", BIGINT, TRUE, "", "biodiversity_areas"),
             Column("cba_category", Enum("cba_category"), TRUE, "", "") >>,
          { <<"property_id", "biodiversity_area_id">> })

property_ecosystems ==
    Table("property_ecosystems",
          << Column("id", BIGSERIAL, FALSE, "p", ""),
             Column("property_id", BIGINT, TRUE, "", "properties"),
             Column("ecosystem_type_id", BIGINT, TRUE, "", "ecosystem_types"),
             Column("threat_status", Enum("ecosystem_threat_status"), FALSE, "", "") >>,
          { <<"property_id", "ecosystem_type_id">> })

\* The classification relation without UNIQUE on property_id.
property_urban_edge_nokey ==
    Table("property_urban_edge",
          << Column("id", BIGSERIAL, FALSE, "p", ""),
             Column("property_id", BIGINT, TRUE, "", "properties"),
             Column("inside_urban_edge", BOOLEAN_T, TRUE, "", "") >>,
          {})

property_urban_edge ==
    Table("property_urban_edge",
          << Column("id", BIGSERIAL, FALSE, "p", ""),
             Column("property_id", BIGINT, TRUE, "u", "properties"),
             Column("inside_urban_edge", BOOLEAN_T, TRUE, "", "") >>,
          {})

offset_calculations ==
    Table("offset_calculations",
          << Column("id", BIGSERIAL, FALSE, "p", ""),
             Column("property_id", BIGINT, TRUE, "", "properties"),
             Column("proposed_footprint_sqm", DOUBLE, TRUE, "", ""),
             Column("cba_category", Enum("cba_category"), FALSE, "", ""),
             Column("base_ratio", DOUBLE, FALSE, "", ""),
             Column("required_offset_ha", DOUBLE, FALSE, "", ""),
             Column("estimated_cost_zar", DOUBLE, FALSE, "", ""),
             Column("is_no_go", BOOLEAN_T, FALSE, "", "") >>,
          {})

rainfall_stations ==
    Table("rainfall_stations",
          << Column("id", SERIAL, FALSE, "p", ""),
             Column("station_id", VARCHAR, TRUE, "u", ""),
             Column("geom", Geometry("Point", 4326), FALSE, "", "") >>,
          {})

rainfall_data ==
    Table("rainfall_data",
          << Column("id", BIGSERIAL, FALSE, "p", ""),
             Column("station_id", VARCHAR, TRUE, "", "") >>,
          {})

solar_potential ==
    Table("solar_potential",
          << Column("id", BIGSERIAL, FALSE, "p", ""),
             Column("property_id", BIGINT, TRUE, "u", "properties") >>,
          {})

users ==
    Table("users",
          << Column("id", BIGSERIAL, FALSE, "p", ""),
             Column("email", VARCHAR, TRUE, "u", "") >>,
          {})

\* One statement of the script.
Stmt(op, name, arg) == [op |-> op, name |-> name, arg |-> arg]

\* The staging relations: CREATE TABLE ... (LIKE ... INCLUDING ALL).
StagingLike ==
    << Stmt("create_table_like", "staging_properties", "properties"),
       Stmt("create_table_like", "staging_biodiversity", "biodiversity_areas"),
       Stmt("create_table_like", "staging_ecosystem_types", "ecosystem_types"),
       Stmt("create_table_like", "staging_address_points", "address_points"),
       Stmt("create_table_like", "staging_heritage", "heritage_sites") >>

\* The same statements without the one that drops the parcel-code key.
StagingDropConstraints_pkeys ==
    << Stmt("drop_constraint_if_exists", "staging_properties",
            "staging_properties_pkey"),
       Stmt("drop_constraint_if_exists", "staging_biodiversity",
            "staging_biodiversity_pkey"),
       Stmt("drop_constraint_if_exists", "staging_ecosystem_types",
            "staging_ecosystem_types_pkey"),
       Stmt("drop_constraint_if_exists", "staging_address_points",
            "staging_address_points_pkey"),
       Stmt("drop_constraint_if_exists", "staging_heritage",
            "staging_heritage_pkey") >>

\* ALTER TABLE ... DROP CONSTRAINT IF EXISTS ... on the staging relations.
StagingDropConstraints ==
    << Stmt("drop_constraint_if_exists", "staging_properties",
            "staging_properties_sg26_code_key"),
       Stmt("drop_constraint_if_exists", "staging_properties",
            "staging_properties_pkey"),
       Stmt("drop_constraint_if_exists", "staging_biodiversity",
            "staging_biodiversity_pkey"),
       Stmt("drop_constraint_if_exists", "staging_ecosystem_types",
            "staging_ecosystem_types_pkey"),
       Stmt("drop_constraint_if_exists", "staging_address_points",
            "staging_address_points_pkey"),
       Stmt("drop_constraint_if_exists", "staging_heritage",
            "staging_heritage_pkey") >>

\* CREATE SCHEMA capeeco alone, over whatever an earlier run left.
SchemaReset_nodrop == << Stmt("create_schema", "capeeco", "") >>

\* DROP SCHEMA IF EXISTS capeeco CASCADE; CREATE SCHEMA capeeco.
SchemaReset ==
    << Stmt("drop_schema_if_exists_cascade", "capeeco", ""),
       Stmt("create_schema", "capeeco", "") >>

\* The whole script, in statement order.
SchemaScript ==
    << Stmt("create_extension_if_not_exists", "postgis", ""),
       Stmt("create_extension_if_not_exists", "postgis_topology", "") >>
    \o SchemaReset
    \o << Stmt("create_type", "cba_category", cba_category),
          Stmt("create_type", "ecosystem_threat_status", ecosystem_threat_status),
          Stmt("create_type", "habitat_condition", habitat_condition),
          Stmt("create_table", "properties", properties),
          Stmt("create_table", "biodiversity_areas", biodiversity_areas),
          Stmt("create_table", "ecosystem_types", ecosystem_types),
          Stmt("create_table", "wetlands", wetlands),
          Stmt("create_table", "urban_edges", urban_edges),
          Stmt("create_table", "zoning_overlays", zoning_overlays),
          Stmt("create_table", "heritage_sites", heritage_sites),
          Stmt("create_table", "address_points", address_points),
          Stmt("create_table", "solar_installations", solar_installations),
          Stmt("create_table", "environmental_focus_areas", environmental_focus_areas),
          Stmt("create_table", "property_biodiversity", property_biodiversity),
          Stmt("create_table", "property_ecosystems", property_ecosystems),
          Stmt("create_table", "property_urban_edge", property_urban_edge),
          Stmt("create_table", "offset_calculations", offset_calculations),
          Stmt("create_table", "rainfall_stations", rainfall_stations),
          Stmt("create_table", "rainfall_data", rainfall_data),
          Stmt("create_table", "solar_potential", solar_potential) >>
    \o StagingLike
    \o StagingDropConstraints
    \o << Stmt("comment_on_schema", "capeeco", ""),
          Stmt("comment_on_table", "properties", ""),
          Stmt("comment_on_table", "biodiversity_areas", ""),
          Stmt("comment_on_table", "ecosystem_types", ""),
          Stmt("comment_on_table", "property_biodiversity", ""),
          Stmt("comment_on_table", "property_ecosystems", ""),
          Stmt("comment_on_table", "property_urban_edge", ""),
          Stmt("create_table_if_not_exists", "users", users),
          Stmt("create_index_if_not_exists", "idx_users_email", "users") >>

-----------------------------------------------------------------------------
(* PostgreSQL's execution of the statements on a catalog *)

\* The relations whose rows the model holds.
Production ==
    {"properties", "biodiversity_areas", "ecosystem_types", "urban_edges",
     "heritage_sites", "address_points"}

Staging ==
    {"staging_properties", "staging_biodiversity", "staging_ecosystem_types",
     "staging_address_points", "staging_heritage"}

Derived == {"property_biodiversity", "property_ecosystems", "property_urban_edge"}

\* The relation the results of the Offset Rule Engine are stored in.
Calculations == {"offset_calculations"}

DataRels == Production \cup Staging \cup Derived \cup Calculations

EmptyFcn == [x \in {} |-> {}]

EmptyData == [r \in DataRels |-> <<>>]

EmptyCatalog ==
    [exts |-> {}, schemas |-> {}, types |-> EmptyFcn, rels |-> EmptyFcn,
     cons |-> {}, idx |-> {}]

IsSerial(t) == t.base \in {"bigserial", "serial"}

RECURSIVE JoinCols(_)
JoinCols(cols) ==
    IF Len(cols) = 1 THEN cols[1] ELSE cols[1] \o "_" \o JoinCols(Tail(cols))

\* The names PostgreSQL chooses for unnamed constraints.
PkeyName(rel) == rel \o "_pkey"
KeyName(rel, cols) == rel \o "_" \o JoinCols(cols) \o "_key"
FkeyName(rel, cols) == rel \o "_" \o JoinCols(cols) \o "_fkey"

Constraint(rel, name, kind, cols, ref) ==
    [rel |-> rel, name |-> name, kind |-> kind, cols |-> cols, ref |-> ref]

ColSeq(def) == def.cols
ColIdx(def) == 1 .. Len(def.cols)

\* The constraints a CREATE TABLE declares: column and table level.
TableConstraints(def) ==
    { Constraint(def.name, PkeyName(def.name), "p", <<def.cols[i].col>>, "")
        : i \in {j \in ColIdx(def) : def.cols[j].key = "p"} }
    \cup
    { Constraint(def.name, KeyName(def.name, <<def.cols[i].col>>), "u",
                 <<def.cols[i].col>>, "")
        : i \in {j \in ColIdx(def) : def.cols[j].key = "u"} }
    \cup
    { Constraint(def.name, FkeyName(def.name, <<def.cols[i].col>>), "f",
                 <<def.cols[i].col>>, def.cols[i].ref)
        : i \in {j \in ColIdx(def) : def.cols[j].ref # ""} }
    \cup
    { Constraint(def.name, KeyName(def.name, u), "u", u, "") : u \in def.uniques }

\* The columns as the catalog keeps them: a serial column and a primary key
\* column are NOT NULL, and a serial column defaults to its own sequence.
CatalogColumns(def) ==
    [i \in ColIdx(def) |->
        [col |-> def.cols[i].col,
         type |-> def.cols[i].type,
         notnull |-> def.cols[i].notnull \/ def.cols[i].key = "p"
                        \/ IsSerial(def.cols[i].type),
         default |-> IF IsSerial(def.cols[i].type)
                     THEN def.name \o "_" \o def.cols[i].col \o "_seq"
                     ELSE ""]]

Fail(st) == [st EXCEPT !.errs = @ + 1]

TypeExists(c, t) ==
    CASE t.base = "enum" -> t.sub \in DOMAIN c.types
      [] t.base = "geometry" -> "postgis" \in c.exts
      [] OTHER -> TRUE

HasKeyOnId(c, rel) ==
    \E k \in c.cons : k.rel = rel /\ k.kind \in {"p", "u"} /\ k.cols = <<"id">>

CreateTable(st, def) ==
    LET c == st.cat IN
    IF \/ "capeeco" \notin c.schemas
       \/ def.name \in DOMAIN c.rels
       \/ \E i \in ColIdx(def) : ~TypeExists(c, def.cols[i].type)
       \/ \E i \in ColIdx(def) :
              def.cols[i].ref # ""
              /\ (def.cols[i].ref \notin DOMAIN c.rels \/ ~HasKeyOnId(c, def.cols[i].ref))
    THEN Fail(st)
    ELSE [st EXCEPT !.cat.rels = @ @@ (def.name :> CatalogColumns(def)),
                    !.cat.cons = @ \cup TableConstraints(def)]

\* CREATE TABLE name (LIKE src INCLUDING ALL): the columns with their types,
\* NOT NULL marks and defaults, and the index-backed constraints (primary key,
\* unique) under the names the default rules give them; foreign keys are not
\* copied.
LikeIncludingAll(st, name, src) ==
    LET c == st.cat IN
    IF "capeeco" \notin c.schemas \/ name \in DOMAIN c.rels \/ src \notin DOMAIN c.rels
    THEN Fail(st)
    ELSE [st EXCEPT
            !.cat.rels = @ @@ (name :> c.rels[src]),
            !.cat.cons = @ \cup
                { Constraint(name,
                             IF k.kind = "p" THEN PkeyName(name) ELSE KeyName(name, k.cols),
                             k.kind, k.cols, "")
                    : k \in {x \in c.cons : x.rel = src /\ x.kind \in {"p", "u"}} }]

DropConstraintIfExists(st, rel, con) ==
    IF rel \notin DOMAIN st.cat.rels
    THEN Fail(st)
    ELSE [st EXCEPT !.cat.cons = {k \in @ : ~(k.rel = rel /\ k.name = con)}]

DropSchemaCascade(st, name) ==
    IF name \notin st.cat.schemas
    THEN st
    ELSE [st EXCEPT !.cat.schemas = @ \ {name},
                    !.cat.types = EmptyFcn,
                    !.cat.rels = EmptyFcn,
                    !.cat.cons = {},
                    !.cat.idx = {},
                    !.data = EmptyData]

Exec(st, s) ==
    LET c == st.cat IN
    CASE s.op = "create_extension_if_not_exists" ->
            [st EXCEPT !.cat.exts = @ \cup {s.name}]
      [] s.op = "drop_schema_if_exists_cascade" -> DropSchemaCascade(st, s.name)
      [] s.op = "create_schema" ->
            IF s.name \in c.schemas THEN Fail(st)
            ELSE [st EXCEPT !.cat.schemas = @ \cup {s.name}]
      [] s.op = "create_type" ->
            IF "capeeco" \notin c.schemas \/ s.name \in DOMAIN c.types THEN Fail(st)
            ELSE [st EXCEPT !.cat.types = @ @@ (s.name :> s.arg)]
      [] s.op = "create_table" -> CreateTable(st, s.arg)
      [] s.op = "create_table_if_not_exists" ->
            IF s.name \in DOMAIN c.rels THEN st ELSE CreateTable(st, s.arg)
      [] s.op = "create_table_like" -> LikeIncludingAll(st, s.name, s.arg)
      [] s.op = "drop_constraint_if_exists" -> DropConstraintIfExists(st, s.name, s.arg)
      [] s.op = "comment_on_schema" ->
            IF s.name \in c.schemas THEN st ELSE Fail(st)
      [] s.op = "comment_on_table" ->
            IF s.name \in DOMAIN c.rels THEN st ELSE Fail(st)
      [] s.op = "create_index_if_not_exists" ->
            IF s.arg \notin DOMAIN c.rels THEN Fail(st)
            ELSE [st EXCEPT !.cat.idx = @ \cup {s.name}]

-----------------------------------------------------------------------------
(* Rows and the constraints an INSERT is checked against *)

ColNames(c, rel) == {c.rels[rel][i].col : i \in DOMAIN c.rels[rel]}

Rows(seq) == {seq[i] : i \in DOMAIN seq}

\* The same check with the SRID of a geometry left unconstrained.
TypeAccepts_anysrid(c, t, v) ==
    \/ v = NULL
    \/ CASE t.base = "geometry" ->
                /\ v \in Geoms
                /\ (t.sub = "Geometry" \/ GType(v) = t.sub)
         [] t.base = "enum" -> \E i \in DOMAIN c.types[t.sub] : c.types[t.sub][i] = v
         [] t.base = "boolean" -> v \in {"t", "f"}
         [] OTHER -> TRUE

\* PostGIS typmod check of a geometry column, enum input, boolean input.
TypeAccepts(c, t, v) ==
    \/ v = NULL
    \/ CASE t.base = "geometry" ->
                /\ v \in Geoms
                /\ (t.sub = "Geometry" \/ GType(v) = t.sub)
                /\ Srid(v) = t.srid
         [] t.base = "enum" -> \E i \in DOMAIN c.types[t.sub] : c.types[t.sub][i] = v
         [] t.base = "boolean" -> v \in {"t", "f"}
         [] OTHER -> TRUE

\* The place of a label in the declaration of its enum type.
EnumPosition(c, type, v) == CHOOSE i \in DOMAIN c.types[type] : c.types[type][i] = v

\* Comparison of two values of an enum type: by declaration order.
EnumLess(c, type, a, b) == EnumPosition(c, type, a) < EnumPosition(c, type, b)

ColumnsAccept(c, rel, row) ==
    \A i \in DOMAIN c.rels[rel] :
        LET col == c.rels[rel][i] IN
        /\ (col.notnull => row[col.col] # NULL)
        /\ TypeAccepts(c, col.type, row[col.col])

\* A primary key or unique constraint: no stored row agrees with the new row
\* on every key column (NULLs never agree).
KeyAccepts(k, stored, row) ==
    ~\E e \in Rows(stored) :
        \A j \in DOMAIN k.cols : row[k.cols[j]] # NULL /\ e[k.cols[j]] = row[k.cols[j]]

ForeignKeyAccepts(k, data, row) ==
    \/ row[k.cols[1]] = NULL
    \/ \E e \in Rows(data[k.ref]) : e["id"] = row[k.cols[1]]

\* The foreign keys that reference rel are never thought violated.
DeleteAccepts_unchecked(c, data, rel) == TRUE

\* DELETE of every row of rel under the foreign keys that reference rel (ON
\* DELETE NO ACTION, not deferrable): no row of rel is referenced when the
\* statement ends.
DeleteAccepts(c, data, rel) ==
    \A k \in {x \in c.cons : x.kind = "f" /\ x.ref = rel /\ x.rel \in DOMAIN data} :
        \A e \in Rows(data[k.rel]) :
            \/ e[k.cols[1]] = NULL
            \/ ~\E r \in Rows(data[rel]) : r["id"] = e[k.cols[1]]

Accepts(c, data, rel, row) ==
    /\ rel \in DOMAIN c.rels
    /\ DOMAIN row = ColNames(c, rel)
    /\ ColumnsAccept(c, rel, row)
    /\ \A k \in {x \in c.cons : x.rel = rel} :
          IF k.kind = "f" THEN ForeignKeyAccepts(k, data, row)
          ELSE KeyAccepts(k, data[rel], row)

-----------------------------------------------------------------------------
(* The rows the writers of the model try to insert *)

PropertyRow(id, code, geom) ==
    [id |-> id, sg26_code |-> code, erf_number |-> "10", geom |-> geom]

BiodiversityRow(id, category, geom) ==
    [id |-> id, cba_category |-> category, geom |-> geom]

EcosystemRow(id, status, geom) ==
    [id |-> id, threat_status |-> status, geom |-> geom]

HeritageRow(id, source, geom) == [id |-> id, source |-> source, geom |-> geom]

AddressRow(id, property, geom) == [id |-> id, property_id |-> property, geom |-> geom]

EdgeRow(id, type, geom) == [id |-> id, edge_type |-> type, geom |-> geom]

InsertRows(rel) ==
    CASE rel \in {"properties", "staging_properties"} ->
            { PropertyRow("1", "A", "MP4326"), PropertyRow("1", "B", "MP4326"),
              PropertyRow("2", "A", "MP4326"), PropertyRow("2", "B", "MP4326"),
              PropertyRow("2", NULL, "MP4326"), PropertyRow("2", "B", NULL),
              PropertyRow("2", "B", "MP3857"), PropertyRow("2", "B", "PG4326"),
              PropertyRow("2", "B", "MPx4326") }
      [] rel \in {"biodiversity_areas", "staging_biodiversity"} ->
            { BiodiversityRow("1", "PA", "MP4326"), BiodiversityRow("1", "ONA", "MP4326"),
              BiodiversityRow("2", NULL, "MP4326"), BiodiversityRow("2", "CBA 3", "MP4326"),
              BiodiversityRow("2", "PA", "MP3857"), BiodiversityRow("2", "PA", NULL) }
      [] rel \in {"ecosystem_types", "staging_ecosystem_types"} ->
            { EcosystemRow("1", "CR", "MP4326"), EcosystemRow("1", NULL, "MP4326"),
              EcosystemRow("2", "CR", "MP3857"), EcosystemRow("2", "CR", NULL) }
      [] rel \in {"heritage_sites", "staging_heritage"} ->
            { HeritageRow("1", "inventory", "MP4326"), HeritageRow("1", "nhra", "MP4326"),
              HeritageRow("2", "nhra", "MP3857"), HeritageRow("2", "nhra", NULL) }
      [] rel \in {"address_points", "staging_address_points"} ->
            { AddressRow("1", NULL, "PT4326"), AddressRow("1", "1", "PT4326"),
              AddressRow("2", NULL, "MP3857"), AddressRow("2", NULL, NULL) }
      [] rel = "urban_edges" ->
            { EdgeRow("1", "development", "PG4326"), EdgeRow("1", "coastal", "MP4326"),
              EdgeRow("2", "coastal", "MP3857") }
      [] OTHER -> {}

RECURSIVE SumLen(_, _)
SumLen(data, rels) ==
    IF rels = {} THEN 0
    ELSE LET r == CHOOSE x \in rels : TRUE
         IN Len(data[r]) + SumLen(data, rels \ {r})

NoInsert == [rel |-> "", row |-> <<>>, ok |-> FALSE]

-----------------------------------------------------------------------------
(* Schema setup and the statements of any writer *)

Datasets ==
    {"parcels", "biodiversity_network", "ecosystem_status", "indigenous_vegetation",
     "development_edge", "coastal_edge", "heritage_inventory", "nhra_protections",
     "address_points_file"}

\* useState(null) of the sidebar: no property.
NoProperty == [loaded |-> FALSE, id |-> "", biodiversity |-> <<>>]

\* The front end before anything is selected, shown, requested or stored: the
\* state of a freshly mounted sidebar, no request in flight.  An absent
\* (null) value is the empty set, a present one the set of that value.
NoSession ==
    [propertyId |-> "", property |-> NoProperty, biodiversity |-> {},
     loading |-> TRUE, analysisLoading |-> FALSE, analysisRun |-> FALSE,
     propertyRequests |-> {}, analysisRequests |-> {}, designations |-> <<>>,
     token |-> {}, location |-> "/", requests |-> <<>>, delivered |-> {},
     user |-> {}, tokenState |-> {}, authLoading |-> FALSE, validation |-> {},
     settled |-> "", starts |-> 0, logins |-> <<>>, formLoading |-> FALSE,
     query |-> "", results |-> <<>>, isOpen |-> FALSE, searchLoading |-> FALSE,
     selectedIndex |-> -1, timers |-> {}, typed |-> "", burst |-> 0,
     searches |-> <<>>, issued |-> {}, thrown |-> FALSE]

NoRead == [rel |-> "", rows |-> <<>>, during |-> FALSE]

LoadIdle ==
    /\ phase = [d \in Datasets |-> "idle"]
    /\ snapshot = [d \in Datasets |-> <<>>]
    /\ snapVer = [d \in Datasets |-> 0]
    /\ prodVer = [r \in Production |-> 0]
    /\ work = [d \in Datasets |-> <<>>]
    /\ pending = [d \in Datasets |-> <<>>]
    /\ dropped = [d \in Datasets |-> 0]
    /\ touched = [d \in Datasets |-> {}]
    /\ obs = NoRead
    /\ runs = 0
    /\ resolved = 0
    /\ ui = NoSession

\* An empty database, before schema setup.
InitFresh ==
    /\ cat = EmptyCatalog
    /\ tbl = EmptyData
    /\ setup = [runs |-> 0, pc |-> 0, errs |-> 0, rowsBefore |-> 0, first |-> EmptyCatalog]
    /\ last = NoInsert
    /\ versions = [r \in Production |-> {<<>>}]
    /\ LoadIdle

SetupIdle == setup.pc = 0

Installed == SetupIdle /\ setup.runs > 0

\* The schema setup step starts: psql -f schema.sql is handed the script.
\* The steps of the command line run one after another, so no load run is
\* under way.
BeginSetup ==
    /\ SetupIdle
    /\ setup.runs < MaxSetups
    /\ \A d \in Datasets : phase[d] = "idle"
    /\ setup' = [setup EXCEPT !.pc = 1, !.errs = 0,
                              !.rowsBefore = SumLen(tbl, DataRels)]
    /\ last' = NoInsert
    /\ versions' = [r \in Production |-> {<<>>}]
    /\ prodVer' = [r \in Production |-> 0]
    /\ obs' = NoRead
    /\ UNCHANGED <<cat, tbl, phase, snapshot, snapVer, work, pending, dropped,
                   touched, runs, resolved, ui>>

\* psql sends the next statement of the script; each statement commits on its
\* own, and after a failed statement psql goes on with the next one.
SetupStep ==
    /\ setup.pc \in 1 .. Len(SchemaScript)
    /\ LET st == Exec([cat |-> cat, data |-> tbl, errs |-> setup.errs],
                      SchemaScript[setup.pc])
           done == setup.pc = Len(SchemaScript)
       IN /\ cat' = st.cat
          /\ tbl' = st.data
          /\ setup' = [setup EXCEPT
                         !.pc = IF done THEN 0 ELSE @ + 1,
                         !.errs = st.errs,
                         !.runs = IF done THEN @ + 1 ELSE @,
                         !.first = IF done /\ setup.runs = 0 THEN st.cat ELSE @]
    /\ UNCHANGED last
    /\ UNCHANGED loadVars

\* INSERT INTO rel VALUES (row), by any writer.
Insert(rel, row) ==
    /\ Installed
    /\ SumLen(tbl, Production \cup Staging) < MaxDbRows
    /\ IF Accepts(cat, tbl, rel, row)
       THEN tbl' = [tbl EXCEPT ![rel] = Append(@, row)]
       ELSE tbl' = tbl
    /\ last' = [rel |-> rel, row |-> row, ok |-> Accepts(cat, tbl, rel, row)]
    /\ UNCHANGED <<cat, setup>>
    /\ UNCHANGED loadVars

-----------------------------------------------------------------------------
(* The load of the source datasets: staging, validation, promotion *)

\* The production relation each source file is loaded into.
Target(d) ==
    CASE d = "parcels" -> "properties"
      [] d = "biodiversity_network" -> "biodiversity_areas"
      [] d \in {"ecosystem_status", "indigenous_vegetation"} -> "ecosystem_types"
      [] d \in {"development_edge", "coastal_edge"} -> "urban_edges"
      [] d \in {"heritage_inventory", "nhra_protections"} -> "heritage_sites"
      [] d = "address_points_file" -> "address_points"

HasStaging(rel) == \E i \in DOMAIN StagingLike : StagingLike[i].arg = rel

\* No staging relation: the load writes the production relation itself.
StagingOf_inplace(rel) == rel

\* One staging relation for every dataset.
StagingOf_shared(rel) == StagingLike[1].name

\* The staging relation the script creates LIKE production relation rel.
StagingOf(rel) ==
    StagingLike[CHOOSE i \in DOMAIN StagingLike : StagingLike[i].arg = rel].name

\* The datasets the script gives a staging relation.
StagedDatasets == {d \in Datasets : HasStaging(Target(d))}

\* The batches go straight to the production relation.
WriteRel_production(d) == Target(d)

\* The relation a load run of dataset d writes its batches to.
WriteRel(d) == StagingOf(Target(d))

\* The sequences the columns of a relation draw their defaults from.
SequencesOf(c, rel) ==
    {c.rels[rel][i].default : i \in {j \in DOMAIN c.rels[rel] : c.rels[rel][j].default # ""}}

\* The database objects a load run of dataset d writes: its relation and the
\* sequence behind the id of every row inserted.
TouchedBy(c, d) == {WriteRel(d)} \cup SequencesOf(c, WriteRel(d))

\* Rows a validated dataset must at least hold.
MinRows == 2

\* The reprojection of a geometry from the projected input frame (EPSG:3857)
\* to the geographic frame (EPSG:4326).
Reproject(g) ==
    CASE g = "MP3857" -> "MP4326"
      [] g = "MPx3857" -> "MPx4326"
      [] g = "PT3857" -> "PT4326"
      [] OTHER -> g

\* The Type Normalizer: the record with its geometry reprojected.
Normalize(f) == [f EXCEPT !.geom = Reproject(@)]

\* The features of the source files, in the projected input frame.
Features(d) ==
    CASE d = "parcels" ->
            { PropertyRow("1", "A", "MP3857"), PropertyRow("2", "B", "MP3857"),
              PropertyRow("2", "A", "MP3857"), PropertyRow("3", "C", NULL),
              PropertyRow("3", "C", "MPx3857") }
      [] d = "biodiversity_network" ->
            { BiodiversityRow("1", "PA", "MP3857"), BiodiversityRow("2", "ONA", "MP3857") }
      [] d = "ecosystem_status" ->
            { EcosystemRow("1", "CR", "MP3857"), EcosystemRow("2", "EN", "MP3857") }
      [] d = "indigenous_vegetation" ->
            { EcosystemRow("3", NULL, "MP3857"), EcosystemRow("4", NULL, "MP3857") }
      [] d = "heritage_inventory" ->
            { HeritageRow("1", "inventory", "MP3857"),
              HeritageRow("2", "inventory", "MP3857") }
      [] d = "nhra_protections" ->
            { HeritageRow("3", "nhra", "MP3857"), HeritageRow("4", "nhra", "MPx3857") }
      [] d = "address_points_file" ->
            { AddressRow("1", NULL, "PT3857"), AddressRow("2", NULL, NULL) }
      [] OTHER -> {}

Active == {d \in Datasets : phase[d] # "idle"}

\* A load run of dataset d begins: its staging relation is cleared.
StartLoad(d) ==
    /\ Installed
    /\ phase[d] = "idle"
    /\ runs < MaxRuns
    /\ runs' = runs + 1
    /\ phase' = [phase EXCEPT ![d] = "staging"]
    /\ tbl' = [tbl EXCEPT ![WriteRel(d)] = <<>>]
    /\ snapshot' = [snapshot EXCEPT ![d] = tbl[Target(d)]]
    /\ snapVer' = [snapVer EXCEPT ![d] = prodVer[Target(d)]]
    /\ touched' = [touched EXCEPT ![d] = {WriteRel(d)}]
    /\ last' = NoInsert
    /\ UNCHANGED <<cat, setup, prodVer, work, pending, dropped, versions, obs,
                   resolved, ui>>

\* One batch of the Staging Loader: a normalized record is inserted into the
\* relation the load writes; a rejected INSERT aborts the load run.
StageBatch(d, f) ==
    LET row == Normalize(f)
        rel == WriteRel(d)
        ok == Accepts(cat, tbl, rel, row)
    IN /\ phase[d] = "staging"
       /\ Len(tbl[rel]) < MaxStaged
       /\ tbl' = IF ok THEN [tbl EXCEPT ![rel] = Append(@, row)] ELSE tbl
       /\ phase' = IF ok THEN phase ELSE [phase EXCEPT ![d] = "failed"]
       /\ touched' = [touched EXCEPT ![d] = @ \cup TouchedBy(cat, d)]
       /\ last' = [rel |-> rel, row |-> row, ok |-> ok]
       /\ UNCHANGED <<cat, setup, snapshot, snapVer, prodVer, work, pending,
                      dropped, versions, obs, runs, resolved, ui>>

Promoting(rel) == \E d \in Datasets : phase[d] = "promoting" /\ Target(d) = rel

\* Promotion begins: the row count check, then the rows with a missing or
\* invalid geometry are dropped and counted, and the transaction that replaces
\* the production rows opens under an exclusive lock on the relation and
\* deletes the rows the relation holds; a row still referenced makes the
\* statement fail and the transaction roll back.
PromoteBegin(d) ==
    LET staged == tbl[WriteRel(d)] IN
    /\ phase[d] = "staging"
    /\ ~Promoting(Target(d))
    /\ IF Len(staged) < MinRows \/ ~DeleteAccepts(cat, tbl, Target(d))
       THEN /\ phase' = [phase EXCEPT ![d] = "failed"]
            /\ UNCHANGED <<pending, dropped, work>>
       ELSE /\ phase' = [phase EXCEPT ![d] = "promoting"]
            /\ pending' = [pending EXCEPT ![d] =
                              SelectSeq(staged, LAMBDA r : IsValidGeom(r.geom))]
            /\ dropped' = [dropped EXCEPT ![d] =
                              Len(staged)
                              - Len(SelectSeq(staged, LAMBDA r : IsValidGeom(r.geom)))]
            /\ work' = [work EXCEPT ![d] = <<>>]
    /\ UNCHANGED <<cat, tbl, setup, last, snapshot, snapVer, prodVer, touched,
                   versions, obs, runs, resolved, ui>>

\* The transaction inserts the next validated row into the production relation,
\* under the constraints of that relation; a violation rolls the transaction
\* back.
PromoteInsert(d) ==
    /\ phase[d] = "promoting"
    /\ pending[d] # <<>>
    /\ IF Accepts(cat, [tbl EXCEPT ![Target(d)] = work[d]], Target(d), Head(pending[d]))
       THEN /\ work' = [work EXCEPT ![d] = Append(@, Head(pending[d]))]
            /\ pending' = [pending EXCEPT ![d] = Tail(@)]
            /\ UNCHANGED phase
       ELSE /\ work' = [work EXCEPT ![d] = <<>>]
            /\ pending' = [pending EXCEPT ![d] = <<>>]
            /\ phase' = [phase EXCEPT ![d] = "failed"]
    /\ UNCHANGED <<cat, tbl, setup, last, snapshot, snapVer, prodVer, dropped,
                   touched, versions, obs, runs, resolved, ui>>

\* The transaction commits: the production relation holds the validated rows.
PromoteCommit(d) ==
    /\ phase[d] = "promoting"
    /\ pending[d] = <<>>
    /\ tbl' = [tbl EXCEPT ![Target(d)] = work[d]]
    /\ versions' = [versions EXCEPT ![Target(d)] = @ \cup {work[d]}]
    /\ prodVer' = [prodVer EXCEPT ![Target(d)] = @ + 1]
    /\ phase' = [phase EXCEPT ![d] = "done"]
    /\ work' = [work EXCEPT ![d] = <<>>]
    /\ touched' = [touched EXCEPT ![d] = @ \cup {Target(d)}]
    /\ UNCHANGED <<cat, setup, last, snapshot, snapVer, pending, dropped, obs, runs,
                   resolved, ui>>

\* The load run of dataset d is over.
FinishRun(d) ==
    /\ phase[d] \in {"done", "failed"}
    /\ phase' = [phase EXCEPT ![d] = "idle"]
    /\ snapshot' = [snapshot EXCEPT ![d] = <<>>]
    /\ snapVer' = [snapVer EXCEPT ![d] = 0]
    /\ dropped' = [dropped EXCEPT ![d] = 0]
    /\ touched' = [touched EXCEPT ![d] = {}]
    /\ obs' = NoRead
    /\ last' = NoInsert
    /\ UNCHANGED <<cat, tbl, setup, prodVer, work, pending, versions, runs,
                   resolved, ui>>

\* A concurrent reader (a resolver run, a rule-engine query) reads a production
\* relation: it sees the committed rows.  during records whether a promotion
\* transaction on the relation was open at that moment.
Read(rel) ==
    /\ Installed
    /\ \E d \in Active : Target(d) = rel
    /\ obs' = [rel |-> rel, rows |-> tbl[rel], during |-> Promoting(rel)]
    /\ UNCHANGED <<cat, tbl, setup, last, phase, snapshot, snapVer, prodVer, work,
                   pending, dropped, touched, versions, runs, resolved, ui>>

\* The schema is set up once, then the datasets are loaded.
Next ==
    \/ (setup.runs = 0 /\ BeginSetup)
    \/ SetupStep
    \/ \E d \in StagedDatasets : StartLoad(d)
    \/ \E d \in StagedDatasets : \E f \in Features(d) : StageBatch(d, f)
    \/ \E d \in StagedDatasets : PromoteBegin(d)
    \/ \E d \in StagedDatasets : PromoteInsert(d)
    \/ \E d \in StagedDatasets : PromoteCommit(d)
    \/ \E d \in StagedDatasets : FinishRun(d)
    \/ \E rel \in Production : Read(rel)

Spec == InitFresh /\ [][Next]_vars

SchemaNext ==
    \/ BeginSetup
    \/ SetupStep
    \/ \E rel \in Production \cup Staging : \E row \in InsertRows(rel) : Insert(rel, row)

SchemaSpec == InitFresh /\ [][SchemaNext]_vars

-----------------------------------------------------------------------------
(* The derived join relations and the Spatial Relationship Resolver *)

BiodiversityJoinRow(id, property, area, category) ==
    [id |-> id, property_id |-> property, biodiversity_area_id |-> area,
     cba_category |-> category]

EcosystemJoinRow(id, property, type, status) ==
    [id |-> id, property_id |-> property, ecosystem_type_id |-> type,
     threat_status |-> status]

UrbanEdgeRow(id, property, inside) ==
    [id |-> id, property_id |-> property, inside_urban_edge |-> inside]

\* The rows the production relations are filled with before the resolver runs.
LoadedRows(rel) ==
    CASE rel = "properties" ->
            { PropertyRow("1", "A", "MP4326"), PropertyRow("2", "B", "MP4326") }
      [] rel = "biodiversity_areas" -> { BiodiversityRow("1", "PA", "MP4326") }
      [] rel = "ecosystem_types" -> { EcosystemRow("1", "CR", "MP4326") }

\* The rows any writer tries to insert into a derived relation.
DerivedRows(rel) ==
    CASE rel = "property_biodiversity" ->
            { BiodiversityJoinRow("1", "1", "1", "PA"),
              BiodiversityJoinRow("2", "1", "1", "PA"),
              BiodiversityJoinRow("2", "2", "1", "PA"),
              BiodiversityJoinRow("2", "1", NULL, "PA") }
      [] rel = "property_ecosystems" ->
            { EcosystemJoinRow("1", "1", "1", NULL),
              EcosystemJoinRow("2", "1", "1", "CR"),
              EcosystemJoinRow("2", "2", "1", NULL),
              EcosystemJoinRow("2", NULL, "1", NULL) }
      [] rel = "property_urban_edge" ->
            { UrbanEdgeRow("1", "1", "t"), UrbanEdgeRow("2", "1", "f"),
              UrbanEdgeRow("2", "2", "f"), UrbanEdgeRow("2", "1", NULL),
              UrbanEdgeRow("2", NULL, "t"), UrbanEdgeRow("2", "2", "maybe") }

\* INSERT INTO a derived relation, by any writer.
InsertDerived(rel, row) ==
    /\ Installed
    /\ SumLen(tbl, Derived) < MaxDerived
    /\ \A k \in {x \in cat.cons : x.kind = "f" /\ x.rel = rel} : ~Promoting(k.ref)
    /\ IF Accepts(cat, tbl, rel, row)
       THEN tbl' = [tbl EXCEPT ![rel] = Append(@, row)]
       ELSE tbl' = tbl
    /\ last' = [rel |-> rel, row |-> row, ok |-> Accepts(cat, tbl, rel, row)]
    /\ UNCHANGED <<cat, setup>>
    /\ UNCHANGED loadVars

\* The value the id sequence of a relation hands to the n-th row of a rebuild.
NextVal(n) == <<"1", "2", "3", "4", "5", "6", "7", "8", "9">>[n]

\* The rows of a set in some order.
RECURSIVE Ordered(_)
Ordered(S) ==
    IF S = {} THEN <<>>
    ELSE LET x == CHOOSE y \in S : TRUE IN <<x>> \o Ordered(S \ {x})

\* The rows of a rebuild are inserted one after another under the constraints
\* of the relation; a rejected row is skipped.
RECURSIVE InsertAll(_, _, _, _)
InsertAll(c, data, rel, rows) ==
    IF rows = <<>> THEN data
    ELSE LET row == [Head(rows) EXCEPT !.id = NextVal(Len(data[rel]) + 1)]
             next == IF Accepts(c, data, rel, row)
                     THEN [data EXCEPT ![rel] = Append(@, row)]
                     ELSE data
         IN InsertAll(c, next, rel, Tail(rows))

\* A run of the resolver: the derived relations are truncated and rebuilt from
\* the production relations.  over and eco are the (property, overlay) pairs
\* whose geometries intersect, inside the properties within the urban edge.
ResolverRun(over, eco, inside) ==
    LET props == Rows(tbl["properties"])
        cleared == [r \in DataRels |-> IF r \in Derived THEN <<>> ELSE tbl[r]]
        bio == InsertAll(cat, cleared, "property_biodiversity",
                   Ordered({BiodiversityJoinRow("", x[1].id, x[2].id, x[2].cba_category)
                              : x \in over}))
        ecos == InsertAll(cat, bio, "property_ecosystems",
                   Ordered({EcosystemJoinRow("", x[1].id, x[2].id, x[2].threat_status)
                              : x \in eco}))
        edge == InsertAll(cat, ecos, "property_urban_edge",
                   Ordered({UrbanEdgeRow("", p.id, IF p \in inside THEN "t" ELSE "f")
                              : p \in props}))
    IN /\ Installed
       /\ resolved < MaxResolves
       /\ \A d \in Datasets : phase[d] = "idle"
       /\ tbl' = edge
       /\ resolved' = resolved + 1
       /\ last' = NoInsert
       /\ UNCHANGED <<cat, setup, phase, snapshot, snapVer, prodVer, work, pending,
                      dropped, touched, versions, obs, runs, ui>>

\* The schema is set up once, the production relations are filled, and the
\* derived relations are written by the resolver and by any other writer.
DerivedNext ==
    \/ (setup.runs = 0 /\ BeginSetup)
    \/ SetupStep
    \/ \E rel \in {"properties", "biodiversity_areas", "ecosystem_types"} :
          \E row \in LoadedRows(rel) : Insert(rel, row)
    \/ \E rel \in Derived : \E row \in DerivedRows(rel) : InsertDerived(rel, row)
    \/ \E over \in SUBSET (Rows(tbl["properties"]) \X Rows(tbl["biodiversity_areas"])) :
          \E eco \in SUBSET (Rows(tbl["properties"]) \X Rows(tbl["ecosystem_types"])) :
             \E inside \in SUBSET Rows(tbl["properties"]) :
                ResolverRun(over, eco, inside)

DerivedSpec == InitFresh /\ [][DerivedNext]_vars

\* The rows a writer other than the resolver tries to insert into a derived
\* relation while the production relations are reloaded.
ReferencingRows(rel) ==
    CASE rel = "property_biodiversity" -> { BiodiversityJoinRow("1", "1", "1", "PA") }
      [] rel = "property_ecosystems" -> {}
      [] rel = "property_urban_edge" ->
            { UrbanEdgeRow("1", "1", "t"), UrbanEdgeRow("2", "2", "f") }

\* The datasets whose production relations the derived relations reference.
ReferencedDatasets == {"parcels", "biodiversity_network"}

\* The schema is set up once; the referenced production relations are loaded
\* and loaded again while the resolver and other writers fill the derived
\* relations.
ReloadNext ==
    \/ (setup.runs = 0 /\ BeginSetup)
    \/ SetupStep
    \/ \E d \in ReferencedDatasets : StartLoad(d)
    \/ \E d \in ReferencedDatasets : \E f \in Features(d) : StageBatch(d, f)
    \/ \E d \in ReferencedDatasets : PromoteBegin(d)
    \/ \E d \in ReferencedDatasets : PromoteInsert(d)
    \/ \E d \in ReferencedDatasets : PromoteCommit(d)
    \/ \E d \in ReferencedDatasets : FinishRun(d)
    \/ \E rel \in Derived : \E row \in ReferencingRows(rel) : InsertDerived(rel, row)
    \/ \E over \in SUBSET (Rows(tbl["properties"]) \X Rows(tbl["biodiversity_areas"])) :
          ResolverRun(over, {}, Rows(tbl["properties"]))

ReloadSpec == InitFresh /\ [][ReloadNext]_vars

-----------------------------------------------------------------------------
(* The front end: lookup tables of utils/constants *)

\* CBA category -> label (the colours are left out).
CBA_COLORS ==
    "PA" :> "Protected Area" @@
    "CA" :> "Conservation Area" @@
    "CBA 1a" :> "CBA 1a (Irreplaceable)" @@
    "CBA 1b" :> "CBA 1b (Irreplaceable, low condition)" @@
    "CBA 1c" :> "CBA 1c (Connectivity)" @@
    "CBA 2" :> "CBA 2 (Optimal)" @@
    "ESA 1" :> "ESA 1 (Natural/Semi-natural)" @@
    "ESA 2" :> "ESA 2 (Modified)" @@
    "ONA" :> "Other Natural Area"

\* Ecosystem threat status -> label.
THREAT_COLORS ==
    "CR" :> "Critically Endangered" @@
    "EN" :> "Endangered" @@
    "VU" :> "Vulnerable" @@
    "LT" :> "Least Threatened"

\* Biodiversity status -> badge label.
BIO_STATUS ==
    "no-go" :> "No-Go" @@
    "exceptional" :> "Exceptional Only" @@
    "offset" :> "Offset Required" @@
    "clear" :> "No Constraints"

-----------------------------------------------------------------------------
(* The Offset Rule Engine *)

NoGoDesignations == {"PA", "CA", "CBA 1a"}

CostPerHa == 5

\* The footprints, in hectares, an offset is calculated for.
Footprints == {1, 2}

\* What Rule Configuration holds for one designation: whether its key is
\* found, the ratio the entry carries (none: the empty set) and the ratio of
\* the ecosystem threat status to fall back to (none: the empty set).
RuleConfigs ==
    {[found |-> f, ratio |-> r, fallback |-> e] :
        f \in BOOLEAN, r \in {{}, {0}, {3}}, e \in {{}, {2}}}

\* The base ratio looked up for a designation: the ratio of its entry, zero
\* included; the ecosystem ratio when the entry carries none; nothing when
\* the lookup misses.
BaseRatio(config) ==
    IF ~config.found THEN {}
    ELSE IF config.ratio # {} THEN config.ratio
    ELSE config.fallback

\* An overlay dominates another when its designation is more severe or, the
\* designation being the same, its overlap percentage is greater.
Dominates(a, b) ==
    LET order == <<"PA", "CA", "CBA 1a", "CBA 1b", "CBA 1c", "CBA 2", "ESA 1",
                   "ESA 2", "ONA">>
        Rank(c) == CHOOSE i \in DOMAIN order : order[i] = c
    IN \/ Rank(a.cba_category) < Rank(b.cba_category)
       \/ a.cba_category = b.cba_category /\ a.overlap_pct > b.overlap_pct

\* The resolved designation of a property: that of an overlay no other overlay
\* dominates, "none" when nothing overlaps.
ResolvedDesignation(overlays) ==
    IF overlays = <<>> THEN "none"
    ELSE LET top == CHOOSE i \in DOMAIN overlays :
                        \A j \in DOMAIN overlays : ~Dominates(overlays[j], overlays[i])
         IN overlays[top].cba_category

OffsetResult(designation, nogo, applicable, error, ratio, area, cost) ==
    [designation |-> designation, is_no_go |-> nogo, offset_applicable |-> applicable,
     error |-> error, base_ratio |-> ratio, required_offset_ha |-> area,
     offset_cost_estimate_zar |-> cost]

\* calculate_offset(parcel, proposed_footprint_area, resolved_designation)
calculate_offset(footprint, designation, config, condition, inside) ==
    IF designation = "none"
    THEN OffsetResult(designation, FALSE, FALSE, FALSE, {}, {0}, {})
    ELSE IF designation \in NoGoDesignations
    THEN OffsetResult(designation, TRUE, FALSE, FALSE, {}, {}, {})
    ELSE IF BaseRatio(config) = {}
    THEN OffsetResult(designation, FALSE, FALSE, TRUE, {}, {}, {})
    ELSE LET ratio == CHOOSE r \in BaseRatio(config) : TRUE
             area == footprint * ratio * condition * (IF inside THEN 1 ELSE 2)
         IN OffsetResult(designation, FALSE, TRUE, FALSE, {ratio}, {area},
                         IF area > 0 THEN {area * CostPerHa} ELSE {})

\* The results the engine can deliver for a footprint and a designation,
\* over every configuration, habitat condition and urban-edge classification.
OffsetResultsFor(footprint, designation) ==
    {calculate_offset(footprint, designation, c, m, i) :
        c \in RuleConfigs, m \in {1, 2}, i \in BOOLEAN}

\* The results the engine can deliver for a designation.
OffsetResults(designation) ==
    UNION {OffsetResultsFor(f, designation) : f \in Footprints}

-----------------------------------------------------------------------------
(* The front end: PropertySidebar *)

\* One entry of property.biodiversity.
Overlay(category, pct) == [cba_category |-> category, overlap_pct |-> pct]

\* The properties of the served data set and the overlays listed for each.
PropertyOverlays ==
    "1" :> <<>> @@
    "2" :> <<Overlay("ESA 2", 60), Overlay("PA", 10)>> @@
    "3" :> <<Overlay("CBA 2", 10), Overlay("CBA 2", 60)>> @@
    "4" :> <<Overlay("CA", 60)>>

PropertyIds == DOMAIN PropertyOverlays

\* The payload getProperty(id) resolves with.
PropertyPayload(id) ==
    [loaded |-> TRUE, id |-> id, biodiversity |-> PropertyOverlays[id]]

\* property.biodiversity[0]: the overlay the badge is derived from.
TopOverlay(property) == property.biodiversity[1]

\* const bioStatus = (() => { ... })()
bioStatus(property) ==
    IF ~property.loaded \/ Len(property.biodiversity) = 0 THEN "clear"
    ELSE LET top == TopOverlay(property).cba_category
         IN IF top \in {"PA", "CA", "CBA 1a"} THEN "no-go"
            ELSE IF top \in {"CBA 1b", "CBA 1c"} THEN "exceptional"
            ELSE IF top \in {"CBA 2", "ESA 1", "ESA 2"} THEN "offset"
            ELSE "clear"

\* loading ? spinner : property ? details : 'Property not found'
DetailsShown(u) == u.propertyId # "" /\ ~u.loading /\ u.property.loaded

\* The Offset Requirement section is rendered.
OffsetSectionShown(u) ==
    /\ DetailsShown(u)
    /\ \E b \in u.biodiversity : ~b.error /\ b.offset_applicable

\* The Est. Cost row is rendered, with every cost guard dropped.
CostShown_unguarded(u) == OffsetSectionShown(u)

\* The Est. Cost row of the Offset Requirement section is rendered.
CostShown(u) ==
    /\ OffsetSectionShown(u)
    /\ \E b \in u.biodiversity : \E c \in b.offset_cost_estimate_zar : c > 0

InFlight(u) == Cardinality(u.propertyRequests) + Cardinality(u.analysisRequests)

\* setSelectedPropertyId(id): the sidebar is mounted or its propertyId prop
\* changes, and the effect runs.
SelectProperty(id) ==
    /\ id # ui.propertyId
    /\ InFlight(ui) < MaxInFlight \/ id \in ui.propertyRequests
    /\ ui' = [ui EXCEPT !.propertyId = id, !.loading = TRUE, !.analysisRun = FALSE,
                        !.biodiversity = {},
                        !.propertyRequests = @ \cup {id}]
    /\ UNCHANGED dbVars

\* handleClose: the sidebar is unmounted, its state and the callbacks of its
\* requests go with it.
Close ==
    /\ ui.propertyId # ""
    /\ ui' = NoSession
    /\ UNCHANGED dbVars

\* getProperty(id).then(setProperty).finally(() => setLoading(false))
PropertyArrives(id) ==
    /\ id \in ui.propertyRequests
    /\ ui' = [ui EXCEPT !.property = PropertyPayload(id), !.loading = FALSE,
                        !.propertyRequests = @ \ {id}]
    /\ UNCHANGED dbVars

\* getProperty(id).catch(console.error).finally(() => setLoading(false))
PropertyFails(id) ==
    /\ id \in ui.propertyRequests
    /\ ui' = [ui EXCEPT !.loading = FALSE, !.propertyRequests = @ \ {id}]
    /\ UNCHANGED dbVars

\* runAnalysis, up to the await.
RunAnalysis ==
    /\ DetailsShown(ui)
    /\ ~ui.analysisRun /\ ~ui.analysisLoading
    /\ InFlight(ui) < MaxInFlight
    /\ ui' = [ui EXCEPT !.analysisLoading = TRUE,
                        !.analysisRequests = @ \cup {ui.propertyId}]
    /\ UNCHANGED dbVars

\* runAnalysis after the await: setBiodiversity(bio); setAnalysisRun(true).
AnalysisArrives(id, bio) ==
    /\ id \in ui.analysisRequests
    /\ ui' = [ui EXCEPT !.biodiversity = {bio}, !.analysisRun = TRUE,
                        !.analysisLoading = FALSE,
                        !.analysisRequests = @ \ {id}]
    /\ UNCHANGED dbVars

\* runAnalysis when a request is rejected.
AnalysisFails(id) ==
    /\ id \in ui.analysisRequests
    /\ ui' = [ui EXCEPT !.analysisLoading = FALSE, !.analysisRequests = @ \ {id}]
    /\ UNCHANGED dbVars

SidebarNext ==
    \/ \E id \in PropertyIds : SelectProperty(id)
    \/ Close
    \/ \E id \in PropertyIds : PropertyArrives(id)
    \/ \E id \in PropertyIds : PropertyFails(id)
    \/ RunAnalysis
    \/ \E id \in PropertyIds :
          \E bio \in OffsetResults(ResolvedDesignation(PropertyOverlays[id])) :
             AnalysisArrives(id, bio)
    \/ \E id \in PropertyIds : AnalysisFails(id)

SidebarSpec == InitFresh /\ [][SidebarNext]_vars

-----------------------------------------------------------------------------
(* Offset calculations: stored in offset_calculations, shown by ReportView *)

\* A number that may be absent, as the text of a column value.
Text(opt) == IF opt = {} THEN NULL ELSE ToString(CHOOSE x \in opt : TRUE)

\* The row a result of the engine is stored as.
OffsetRow(id, property, footprint, res) ==
    [id |-> id, property_id |-> property,
     proposed_footprint_sqm |-> ToString(footprint),
     cba_category |-> IF res.designation = "none" THEN NULL ELSE res.designation,
     base_ratio |-> Text(res.base_ratio),
     required_offset_ha |-> Text(res.required_offset_ha),
     estimated_cost_zar |-> Text(res.offset_cost_estimate_zar),
     is_no_go |-> IF res.is_no_go THEN "t" ELSE "f"]

\* The Status cell with the no-go test left out.
StatusCell_nonogo(d) == IF d.offset_applicable THEN "OFFSET" ELSE "-"

\* BiodiversityTable, the Status cell of a row.
StatusCell(d) ==
    IF d.is_no_go THEN "NO-GO"
    ELSE IF d.offset_applicable THEN "OFFSET"
    ELSE "-"

\* BiodiversityTable, the Offset Ratio cell of a row.
RatioCell(d) ==
    IF d.base_ratio # {} THEN ToString(CHOOSE r \in d.base_ratio : TRUE) \o ":1"
    ELSE "-"

\* The resolved designations offsets are calculated for.
CalculatedDesignations == {"none", "CA", "CBA 2", "ONA"}

\* An offset is calculated for a property, stored, and listed in the report.
RecordOffset(property, footprint, res) ==
    LET rel == "offset_calculations"
        row == OffsetRow(NextVal(Len(tbl[rel]) + 1), property, footprint, res)
        ok == Accepts(cat, tbl, rel, row)
    IN /\ Installed
       /\ Len(tbl[rel]) < MaxCalculations
       /\ tbl' = IF ok THEN [tbl EXCEPT ![rel] = Append(@, row)] ELSE tbl
       /\ ui' = IF ok THEN [ui EXCEPT !.designations = Append(@, res)] ELSE ui
       /\ last' = [rel |-> rel, row |-> row, ok |-> ok]
       /\ UNCHANGED <<cat, setup, phase, snapshot, snapVer, prodVer, work, pending,
                      dropped, touched, versions, obs, runs, resolved>>

\* The schema is set up once, parcels are inserted, and offsets are calculated
\* for them.
OffsetNext ==
    \/ (setup.runs = 0 /\ BeginSetup)
    \/ SetupStep
    \/ \E row \in LoadedRows("properties") : Insert("properties", row)
    \/ \E property \in {"1", "2"}, footprint \in Footprints :
          \E designation \in CalculatedDesignations :
             \E res \in OffsetResultsFor(footprint, designation) :
                RecordOffset(property, footprint, res)

OffsetSpec == InitFresh /\ [][OffsetNext]_vars

-----------------------------------------------------------------------------
(* The front end: the API client and its interceptors *)

\* The access tokens the server hands out.
Tokens == {"a", "b"}

\* Request URLs, as their path segments: /search, /property/1, /auth/me, /auth.
Urls == {<<"search">>, <<"property", "1">>, <<"auth", "me">>, <<"auth">>}

\* The status of a response: 0 stands for an error without a response.
Statuses == {0, 200, 401, 500}

\* The Authorization header set to the bare token.
Authorization_bare(token) == token

\* The request interceptor: Authorization is `Bearer ${token}` when
\* localStorage holds a token, and is not set otherwise.
Authorization(token) ==
    IF token # {} THEN {"Bearer " \o t : t \in token} ELSE {}

\* The test of the response interceptor with no URL taken for an auth URL.
IsAuthUrl_never(url) == FALSE

\* error.config?.url?.includes('/auth/'): a segment "auth" followed by a slash.
IsAuthUrl(url) == \E i \in 1..(Len(url) - 1) : url[i] = "auth"

\* The sequence without its i-th element.
Without(seq, i) == SubSeq(seq, 1, i - 1) \o SubSeq(seq, i + 1, Len(seq))

\* login, register: localStorage.setItem('capeeco_token', access_token)
StoreToken(t) ==
    /\ ui.token # {t}
    /\ ui' = [ui EXCEPT !.token = {t}]
    /\ UNCHANGED dbVars

\* logout: localStorage.removeItem('capeeco_token')
Logout ==
    /\ ui.token # {}
    /\ ui' = [ui EXCEPT !.token = {}]
    /\ UNCHANGED dbVars

\* api.get(url) / api.post(url): the request passes the request interceptor
\* and is sent.
Send(url) ==
    /\ Len(ui.requests) < MaxRequests
    /\ ui' = [ui EXCEPT !.requests =
                 Append(@, [url |-> url, authorization |-> Authorization(ui.token)])]
    /\ UNCHANGED dbVars

\* The response to the i-th request in flight arrives and passes the response
\* interceptor; the caller's promise is settled.
Respond(i, status) ==
    /\ i \in DOMAIN ui.requests
    /\ LET url == ui.requests[i].url
           expired == status = 401 /\ ~IsAuthUrl(url)
       IN ui' = [ui EXCEPT !.requests = Without(@, i),
                           !.token = IF expired THEN {} ELSE @,
                           !.location = IF expired THEN "/login" ELSE @,
                           !.delivered = {[url |-> url, status |-> status,
                                           rejected |-> status # 200]}]
    /\ UNCHANGED dbVars

ApiNext ==
    \/ \E t \in Tokens : StoreToken(t)
    \/ Logout
    \/ \E url \in Urls : Send(url)
    \/ \E i \in 1..MaxRequests : \E status \in Statuses : Respond(i, status)

ApiSpec == InitFresh /\ [][ApiNext]_vars

-----------------------------------------------------------------------------
(* The front end: AuthProvider, ProtectedRoute and LoginPage *)

\* The user data the server returns for an access token.
UserOf(t) == "user " \o t

\* What the router renders, with the loading test of ProtectedRoute left out.
Rendered_noloading(u) ==
    IF u.location = "/login" THEN "login"
    ELSE IF u.user # {} THEN "content"
    ELSE "redirect"

\* What the router renders: LoginPage at /login; elsewhere ProtectedRoute
\* gives the placeholder while loading, MainApp when isAuthenticated, and
\* <Navigate to="/login" replace /> otherwise.
Rendered(u) ==
    IF u.location = "/login" THEN "login"
    ELSE IF u.authLoading THEN "placeholder"
    ELSE IF u.user # {} THEN "content"
    ELSE "redirect"

\* The render that follows a state change: <Navigate> moves the router to
\* /login, where a fresh LoginPage is mounted.
Render(u) ==
    IF Rendered(u) = "redirect" THEN [u EXCEPT !.location = "/login"] ELSE u

\* The logout button is there whatever is rendered.
LogoutOffered_always(u) == TRUE

\* The logout button is part of MainApp, the protected content.
LogoutOffered(u) == Rendered(u) = "content"

\* The LoginPage that submitted the pending requests is unmounted: their
\* setLoading and setError no longer reach a mounted form.
FormsGone(logins) == [i \in DOMAIN logins |-> [logins[i] EXCEPT !.form = FALSE]]

\* The application starts (the page is loaded): AuthProvider is mounted with
\* the token of localStorage and its effect runs; the requests of the page
\* before go with it.
Start ==
    /\ ui.starts < MaxStarts
    /\ ui' = Render([ui EXCEPT !.starts = @ + 1,
                               !.tokenState = ui.token,
                               !.user = {},
                               !.authLoading = ui.token # {},
                               !.validation = ui.token,
                               !.settled = "",
                               !.logins = <<>>,
                               !.formLoading = FALSE])
    /\ UNCHANGED dbVars

\* api.get('/auth/me').then(r => setUser(r.data)).finally(...)
ValidationSucceeds ==
    /\ ui.validation # {}
    /\ ui' = Render([ui EXCEPT !.user = {UserOf(t) : t \in ui.validation},
                               !.authLoading = FALSE,
                               !.validation = {},
                               !.settled = "ok"])
    /\ UNCHANGED dbVars

\* The failed validation without the finally that ends loading.
ValidationFails_nofinally ==
    /\ ui.validation # {}
    /\ ui' = Render([ui EXCEPT !.token = {},
                               !.tokenState = {},
                               !.user = {},
                               !.validation = {},
                               !.settled = "failed"])
    /\ UNCHANGED dbVars

\* api.get('/auth/me').catch(() => { ... }).finally(...)
ValidationFails ==
    /\ ui.validation # {}
    /\ ui' = Render([ui EXCEPT !.token = {},
                               !.tokenState = {},
                               !.user = {},
                               !.authLoading = FALSE,
                               !.validation = {},
                               !.settled = "failed"])
    /\ UNCHANGED dbVars

\* The router moves between / and /login without a page load (history).
Go(loc) ==
    /\ ui.starts > 0
    /\ loc # ui.location
    /\ ui' = Render([ui EXCEPT !.location = loc,
                               !.logins = FormsGone(@),
                               !.formLoading = FALSE])
    /\ UNCHANGED dbVars

\* LoginPage.handleSubmit up to the await inside login or register.
Submit(mode) ==
    /\ ui.starts > 0
    /\ Rendered(ui) = "login"
    /\ ~ui.formLoading
    /\ Len(ui.logins) < MaxLogins
    /\ ui' = [ui EXCEPT !.formLoading = TRUE,
                        !.logins = Append(@, [mode |-> mode, form |-> TRUE])]
    /\ UNCHANGED dbVars

\* login / register after the await: the token is stored and the user set;
\* handleSubmit's finally resets the form.
LoginSucceeds(i, t) ==
    /\ i \in DOMAIN ui.logins
    /\ ui' = Render([ui EXCEPT !.token = {t},
                               !.tokenState = {t},
                               !.user = {UserOf(t)},
                               !.logins = Without(@, i),
                               !.formLoading = IF ui.logins[i].form THEN FALSE ELSE @])
    /\ UNCHANGED dbVars

\* login / register rejected: handleSubmit shows the error and resets the form.
LoginFails(i) ==
    /\ i \in DOMAIN ui.logins
    /\ ui' = [ui EXCEPT !.logins = Without(@, i),
                        !.formLoading = IF ui.logins[i].form THEN FALSE ELSE @]
    /\ UNCHANGED dbVars

\* logout
AuthLogout ==
    /\ LogoutOffered(ui)
    /\ ui' = Render([ui EXCEPT !.token = {}, !.tokenState = {}, !.user = {}])
    /\ UNCHANGED dbVars

AuthNext ==
    \/ Start
    \/ ValidationSucceeds
    \/ ValidationFails
    \/ \E loc \in {"/", "/login"} : Go(loc)
    \/ \E mode \in {"login", "register"} : Submit(mode)
    \/ \E i \in 1..MaxLogins : \E t \in Tokens : LoginSucceeds(i, t)
    \/ \E i \in 1..MaxLogins : LoginFails(i)
    \/ AuthLogout

AuthSpec == InitFresh /\ [][AuthNext]_vars

\* The validation request settles: the server answers or the request fails.
AuthLiveSpec == AuthSpec /\ WF_vars(ValidationSucceeds \/ ValidationFails)

-----------------------------------------------------------------------------
(* The front end: AddressSearchBar *)

\* The values typed into the search box.
Queries == {"", "a", "ab", "abc"}

\* The k-th result of the response to a query.
SearchResult(q, k) == [id |-> k, query |-> q]

\* data.results of a response with n results.
SearchResults(q, n) == [k \in 1..n |-> SearchResult(q, k)]

\* result.full_address || `ERF ${result.erf_number}, ${result.suburb}`
AddressOf(result) == "ERF " \o ToString(result.id)

\* handleChange without clearTimeout: every timer stays scheduled.
ClearTimeout_none(timers, val) == timers

\* clearTimeout(debounceRef.current): the timer of the keystroke before, the
\* one debounceRef holds, is cancelled.
ClearTimeout(timers, val) == timers \ {val}

\* handleChange
Type(val) ==
    /\ val # ui.query
    /\ ui' = [ui EXCEPT !.query = val,
                        !.timers = ClearTimeout(@, ui.typed) \cup {val},
                        !.typed = val,
                        !.burst = IF ui.timers = {} THEN 1
                                  ELSE IF @ < MaxBurst THEN @ + 1 ELSE @,
                        !.thrown = FALSE]
    /\ UNCHANGED dbVars

\* The timer of a keystroke fires after 300 ms: doSearch(val) up to its
\* return or its await.
TimerFires(val) ==
    /\ val \in ui.timers
    /\ Len(val) < 2 \/ Len(ui.searches) < MaxSearches
    /\ ui' = IF Len(val) < 2
             THEN [ui EXCEPT !.timers = @ \ {val}, !.results = <<>>, !.isOpen = FALSE]
             ELSE [ui EXCEPT !.timers = @ \ {val}, !.searchLoading = TRUE,
                             !.searches = Append(@, val), !.issued = {val}]
    /\ UNCHANGED dbVars

\* doSearch after the await, the request answered with n results.
SearchSucceeds(i, n) ==
    /\ i \in DOMAIN ui.searches
    /\ ui' = [ui EXCEPT !.results = SearchResults(ui.searches[i], n),
                        !.isOpen = n > 0,
                        !.selectedIndex = -1,
                        !.searchLoading = FALSE,
                        !.searches = Without(@, i)]
    /\ UNCHANGED dbVars

\* doSearch after the await, the request rejected: catch and finally.
SearchFails(i) ==
    /\ i \in DOMAIN ui.searches
    /\ ui' = [ui EXCEPT !.results = <<>>,
                        !.searchLoading = FALSE,
                        !.searches = Without(@, i)]
    /\ UNCHANGED dbVars

\* handleSelect(result)
handleSelect(u, result) == [u EXCEPT !.query = AddressOf(result), !.isOpen = FALSE]

\* handleKeyDown: ArrowDown
ArrowDown ==
    /\ ui.isOpen
    /\ ui' = [ui EXCEPT !.selectedIndex =
                 IF @ + 1 < Len(ui.results) - 1 THEN @ + 1 ELSE Len(ui.results) - 1]
    /\ ui'.selectedIndex # ui.selectedIndex
    /\ UNCHANGED dbVars

\* handleKeyDown: ArrowUp
ArrowUp ==
    /\ ui.isOpen
    /\ ui' = [ui EXCEPT !.selectedIndex = IF @ - 1 > 0 THEN @ - 1 ELSE 0]
    /\ ui'.selectedIndex # ui.selectedIndex
    /\ UNCHANGED dbVars

\* handleKeyDown: Enter.  results[selectedIndex] of an index past the end is
\* undefined, and handleSelect throws on reading its full_address.
Enter ==
    /\ ui.isOpen
    /\ ui.selectedIndex >= 0
    /\ ui' = IF ui.selectedIndex + 1 \in DOMAIN ui.results
             THEN handleSelect(ui, ui.results[ui.selectedIndex + 1])
             ELSE [ui EXCEPT !.thrown = TRUE]
    /\ ui' # ui
    /\ UNCHANGED dbVars

\* A click on a row of the dropdown.
ClickResult(k) ==
    /\ ui.isOpen
    /\ k \in DOMAIN ui.results
    /\ ui' = handleSelect(ui, ui.results[k])
    /\ UNCHANGED dbVars

\* handleKeyDown: Escape, and the mousedown handler of an outside click.
Dismiss ==
    /\ ui.isOpen
    /\ ui' = [ui EXCEPT !.isOpen = FALSE]
    /\ UNCHANGED dbVars

\* clear
Clear ==
    /\ ui.query # ""
    /\ ui' = [ui EXCEPT !.query = "", !.results = <<>>, !.isOpen = FALSE]
    /\ UNCHANGED dbVars

\* onFocus
Focus ==
    /\ Len(ui.results) > 0
    /\ ~ui.isOpen
    /\ ui' = [ui EXCEPT !.isOpen = TRUE]
    /\ UNCHANGED dbVars

SearchNext ==
    \/ \E val \in Queries : Type(val)
    \/ \E val \in Queries : TimerFires(val)
    \/ \E i \in 1..MaxSearches : \E n \in 0..MaxResults : SearchSucceeds(i, n)
    \/ \E i \in 1..MaxSearches : SearchFails(i)
    \/ ArrowDown
    \/ ArrowUp
    \/ Enter
    \/ \E k \in 1..MaxResults : ClickResult(k)
    \/ Dismiss
    \/ Clear
    \/ Focus

SearchSpec == InitFresh /\ [][SearchNext]_vars

-----------------------------------------------------------------------------
(* Properties *)

\* C1: a load run whose staging or promotion failed leaves the production
\* relation holding the rows it held when the run began (no other run having
\* committed a promotion of that relation meanwhile).
C1_FailedLoadLeavesProduction ==
    \A d \in Datasets :
        phase[d] = "failed" /\ prodVer[Target(d)] = snapVer[d]
            => tbl[Target(d)] = snapshot[d]

\* A run over a production relation that held rows has staged a row and then
\* failed the row-count check of its promotion.
C1_Witness ==
    \E d \in Datasets :
        /\ phase[d] = "failed"
        /\ snapshot[d] # <<>>
        /\ prodVer[Target(d)] = snapVer[d]
        /\ Len(tbl[WriteRel(d)]) = 1
        /\ last.rel = WriteRel(d) /\ last.ok

\* C2: every read of a production relation returns contents that a commit
\* published whole: the rows before the promotion or the validated rows
\* after it, never rows of a load under way.
C2_ReadersSeeOldOrNew == obs.rel # "" => obs.rows \in versions[obs.rel]

\* A reader has read rows of a relation whose promotion transaction was open
\* and had already written rows.
C2_Witness ==
    /\ obs.rel # ""
    /\ obs.during
    /\ obs.rows # <<>>
    /\ \E d \in Datasets :
          phase[d] = "promoting" /\ Target(d) = obs.rel /\ work[d] # <<>>

\* C3: once the schema is set up, no staging relation carries a primary-key,
\* unique or foreign-key constraint, and a row the columns of a staging
\* relation accept is accepted whatever rows the relation holds.
C3_StagingEnforcesNoKeys ==
    Installed =>
        /\ \A k \in cat.cons : k.rel \notin Staging
        /\ \A rel \in Staging : \A row \in InsertRows(rel) :
              ColumnsAccept(cat, rel, row) => Accepts(cat, tbl, rel, row)

\* staging_properties holds two rows with the same id and the same sg26_code.
C3_Witness ==
    /\ Installed
    /\ Len(tbl["staging_properties"]) = 2
    /\ tbl["staging_properties"][1].id = tbl["staging_properties"][2].id
    /\ tbl["staging_properties"][1].sg26_code = tbl["staging_properties"][2].sg26_code
    /\ last.rel = "staging_properties" /\ last.ok

\* C4: every run of the schema script, the first or a later one, over or without
\* loaded rows, ends without a failed statement and leaves the catalog the
\* first run left.
C4_SetupIsRerunnable == Installed => setup.errs = 0 /\ cat = setup.first

\* The script has run a second time, over a database that held rows.
C4_Witness == Installed /\ setup.runs = 2 /\ setup.rowsBefore > 0

\* C5 as stated: two different datasets loaded in parallel never write the same
\* relation or sequence.
C5_OwnStagingRelation ==
    \A d1 \in Datasets : \A d2 \in Datasets \ {d1} :
        d1 \in Active /\ d2 \in Active => touched[d1] \cap touched[d2] = {}

\* C5 amended: two datasets loaded in parallel into different production
\* relations never write the same relation or sequence.
C5_OwnStagingPerTarget ==
    \A d1 \in StagedDatasets : \A d2 \in StagedDatasets \ {d1} :
        d1 \in Active /\ d2 \in Active /\ Target(d1) # Target(d2)
            => touched[d1] \cap touched[d2] = {}

\* Two loads into different production relations are under way and each has
\* written its staging relation and drawn from a sequence.
C5_Witness ==
    \E d1 \in StagedDatasets : \E d2 \in StagedDatasets :
        /\ Target(d1) # Target(d2)
        /\ phase[d1] = "staging" /\ phase[d2] = "staging"
        /\ tbl[WriteRel(d1)] # <<>> /\ tbl[WriteRel(d2)] # <<>>
        /\ Cardinality(touched[d1]) > 1 /\ Cardinality(touched[d2]) > 1

\* C6 as stated: a row with a missing or invalid geometry is accepted by the
\* staging relation it is written to, the load going on.
C6_BadGeometryIsStaged ==
    last.rel \in Staging /\ ~IsValidGeom(last.row.geom) => last.ok

C8_ParcelInvariant ==
    LET ps == tbl["properties"] IN
    \A i \in DOMAIN ps :
        /\ ps[i].sg26_code # NULL
        /\ ps[i].geom # NULL
        /\ GType(ps[i].geom) = "MultiPolygon"
        /\ \A j \in DOMAIN ps : i # j => ps[i].sg26_code # ps[j].sg26_code

\* properties holds two rows with the same erf_number.
C8_Witness ==
    /\ Len(tbl["properties"]) = 2
    /\ tbl["properties"][1].erf_number = tbl["properties"][2].erf_number
    /\ tbl["properties"][1].erf_number # NULL

\* C9: property_biodiversity holds at most one row per (property, biodiversity
\* area) and property_ecosystems at most one row per (property, ecosystem type).
C9_OneRowPerPair ==
    LET pb == tbl["property_biodiversity"]
        pe == tbl["property_ecosystems"]
    IN /\ \A i \in DOMAIN pb : \A j \in DOMAIN pb :
             i # j => \/ pb[i].property_id # pb[j].property_id
                      \/ pb[i].biodiversity_area_id # pb[j].biodiversity_area_id
       /\ \A i \in DOMAIN pe : \A j \in DOMAIN pe :
             i # j => \/ pe[i].property_id # pe[j].property_id
                      \/ pe[i].ecosystem_type_id # pe[j].ecosystem_type_id

\* After the resolver has run twice, a second row for a pair that
\* property_biodiversity holds was turned away.
C9_Witness ==
    /\ resolved = 2
    /\ Len(tbl["property_biodiversity"]) = 1
    /\ last.rel = "property_biodiversity" /\ ~last.ok
    /\ last.row.id # tbl["property_biodiversity"][1].id
    /\ last.row.property_id = tbl["property_biodiversity"][1].property_id
    /\ last.row.biodiversity_area_id = tbl["property_biodiversity"][1].biodiversity_area_id

\* C10: property_urban_edge holds at most one row per property, and
\* inside_urban_edge of every row is true or false.
C10_OneClassificationPerProperty ==
    LET pu == tbl["property_urban_edge"] IN
    \A i \in DOMAIN pu :
        /\ pu[i].inside_urban_edge \in {"t", "f"}
        /\ \A j \in DOMAIN pu : i # j => pu[i].property_id # pu[j].property_id

\* A second classification of a property that has one was turned away.
C10_Witness ==
    /\ Len(tbl["property_urban_edge"]) = 1
    /\ last.rel = "property_urban_edge" /\ ~last.ok
    /\ last.row.id # tbl["property_urban_edge"][1].id
    /\ last.row.property_id = tbl["property_urban_edge"][1].property_id
    /\ last.row.inside_urban_edge \in {"t", "f"}

C12_EnumerationsAreExact ==
    LET categories == {"PA", "CA", "CBA 1a", "CBA 1b", "CBA 1c", "CBA 2", "ESA 1",
                       "ESA 2", "ONA"}
        statuses == {"CR", "EN", "VU", "LT"}
        conditions == {"Natural", "Good", "Fair", "Poor", "Irreversibly modified",
                       "Natural aquatic habitat"}
        probes == categories \cup statuses \cup conditions
                     \cup {"CBA 3", "CBA 1", "ESA", "LC", "Modified", ""}
    IN /\ Installed =>
            /\ Rows(cat.types["cba_category"]) = categories
            /\ Rows(cat.types["ecosystem_threat_status"]) = statuses
            /\ Rows(cat.types["habitat_condition"]) = conditions
            /\ \A v \in probes :
                  /\ TypeAccepts(cat, Enum("cba_category"), v) <=> v \in categories
                  /\ TypeAccepts(cat, Enum("ecosystem_threat_status"), v) <=> v \in statuses
                  /\ TypeAccepts(cat, Enum("habitat_condition"), v) <=> v \in conditions
       /\ \A row \in Rows(tbl["biodiversity_areas"]) : row.cba_category \in categories
       /\ DOMAIN CBA_COLORS = categories
       /\ DOMAIN THREAT_COLORS = statuses

\* biodiversity_areas holds a row, and a row with a category outside the
\* enumeration was turned away.
C12_Witness ==
    /\ Installed
    /\ tbl["biodiversity_areas"] # <<>>
    /\ last.rel = "biodiversity_areas" /\ ~last.ok
    /\ last.row.cba_category = "CBA 3"

\* C13: with a more severe than b when a is declared before b in the installed
\* cba_category type, severity is irreflexive, transitive and total over the
\* nine categories, and it orders them PA > CA > CBA 1a > CBA 1b > CBA 1c >
\* CBA 2 > ESA 1 > ESA 2 > ONA.
C13_SeverityIsStrictTotalOrder ==
    LET order == <<"PA", "CA", "CBA 1a", "CBA 1b", "CBA 1c", "CBA 2", "ESA 1",
                   "ESA 2", "ONA">>
        cats == Rows(order)
        MoreSevere(a, b) == EnumLess(cat, "cba_category", a, b)
    IN Installed =>
         /\ Rows(cat.types["cba_category"]) = cats
         /\ \A a \in cats : ~MoreSevere(a, a)
         /\ \A a \in cats : \A b \in cats : \A c \in cats :
               MoreSevere(a, b) /\ MoreSevere(b, c) => MoreSevere(a, c)
         /\ \A a \in cats : \A b \in cats :
               a # b => (MoreSevere(a, b) \/ MoreSevere(b, a))
         /\ \A i \in DOMAIN order : \A j \in DOMAIN order :
               i < j <=> MoreSevere(order[i], order[j])

\* The type is installed and ranks CBA 1c above CBA 2 and not the reverse.
C13_Witness ==
    /\ Installed
    /\ EnumLess(cat, "cba_category", "CBA 1c", "CBA 2")
    /\ ~EnumLess(cat, "cba_category", "CBA 2", "CBA 1c")

\* C14 as stated: whenever the sidebar shows a property with overlays, the
\* overlay its status badge is derived from is one no other overlay of the
\* property dominates (none is more severe, none of the same designation has a
\* greater overlap percentage), whatever the order of the list.
C14_BadgeFromDominantOverlay ==
    LET list == ui.property.biodiversity
    IN DetailsShown(ui) /\ list # <<>> =>
          \A i \in DOMAIN list : ~Dominates(list[i], TopOverlay(ui.property))

\* C15 as stated: whenever the sidebar shows a property whose governing
\* designation (the most severe of its overlays) is PA, CA or CBA 1a, the
\* status badge is 'no-go' and no Offset Requirement section, with its ratio,
\* required area and cost, is presented.
C15_NoGoHasNoOffset ==
    DetailsShown(ui)
      /\ ResolvedDesignation(ui.property.biodiversity) \in NoGoDesignations =>
          /\ bioStatus(ui.property) = "no-go"
          /\ ~OffsetSectionShown(ui)

\* C16 as stated: whenever the sidebar shows a property no designation
\* overlaps, the status badge is 'clear' and neither an Offset Requirement
\* section nor a cost estimate is presented.
C16_ClearHasNoOffset ==
    DetailsShown(ui) /\ ui.property.biodiversity = <<>> =>
        /\ bioStatus(ui.property) = "clear"
        /\ ~OffsetSectionShown(ui)
        /\ ~CostShown(ui)

C19_RequestsCarryStoredToken ==
    [][Len(ui'.requests) > Len(ui.requests) =>
          LET sent == ui'.requests[Len(ui'.requests)]
          IN /\ \A t \in Tokens : ui.token = {t} => sent.authorization = {"Bearer " \o t}
             /\ ui.token = {} => sent.authorization = {}]_vars

\* Two requests are in flight, one sent without a token and one with token b.
C19_Witness ==
    /\ Len(ui.requests) = 2
    /\ ui.requests[1].authorization = {}
    /\ ui.requests[2].authorization = {"Bearer b"}

\* C20: when an error passes the response interceptor, a 401 for a URL that
\* does not contain '/auth/' removes the stored token and sends the browser to
\* /login, any other error (another status, a 401 from an '/auth/' URL, no
\* response at all) leaves the stored token as it was, and the error is
\* delivered to the caller as a rejection in every case.
C20_ExpiredSessionHandling ==
    [][Len(ui'.requests) < Len(ui.requests) =>
          \A d \in ui'.delivered :
             d.status # 200 =>
                /\ d.rejected
                /\ IF d.status = 401 /\ d.url \notin {<<"auth", "me">>}
                   THEN ui'.token = {} /\ ui'.location = "/login"
                   ELSE ui'.token = ui.token]_vars

\* A 401 for /property/1 was delivered as a rejection, the token is gone and
\* the browser is at /login.
C20_Witness ==
    /\ ui.delivered = {[url |-> <<"property", "1">>, status |-> 401, rejected |-> TRUE]}
    /\ ui.token = {}
    /\ ui.location = "/login"
    /\ ui.requests # <<>>

\* C21: after an application start the loading flag eventually becomes false.
\* It is false at once when no token is stored, and otherwise true exactly
\* while the validation request is pending; when the validation succeeds the
\* user is set, when it fails the token is removed from local storage and
\* token and user are both null.
C21_ValidationEndsLoading ==
    /\ ui.authLoading ~> ~ui.authLoading
    /\ [](ui.authLoading <=> ui.validation # {})
    /\ [][/\ (ui'.starts > ui.starts /\ ui.token = {} => ~ui'.authLoading)
          /\ (ui.validation # {} /\ ui'.validation = {} =>
                /\ ~ui'.authLoading
                /\ ui'.settled = "ok" => ui'.user # {}
                /\ ui'.settled = "failed" =>
                      ui'.token = {} /\ ui'.tokenState = {} /\ ui'.user = {})]_vars

\* The validation of a stored token failed: loading is over, the token is
\* gone from local storage, token and user are null.
C21_Witness ==
    /\ ui.starts > 0
    /\ ui.settled = "failed"
    /\ ~ui.authLoading
    /\ ui.token = {} /\ ui.tokenState = {} /\ ui.user = {}

\* C22: the protected content is rendered only when the initial validation is
\* over and a user is set; while loading, a protected route shows the
\* placeholder; once the application has started, a route that is neither
\* loading nor authenticated has been redirected to /login; and a step of the
\* running page that ends the session while the content is shown (logout)
\* leaves the login page rendered, not the content.
C22_ProtectedContentNeedsSession ==
    /\ [](Rendered(ui) = "content" => ui.validation = {} /\ ui.user # {})
    /\ [](ui.location # "/login" /\ ui.validation # {} => Rendered(ui) = "placeholder")
    /\ [](ui.starts > 0 /\ ui.validation = {} /\ ui.user = {} => ui.location = "/login")
    /\ [][Rendered(ui) = "content" /\ ui'.starts = ui.starts /\ ui'.user = {} =>
              Rendered(ui') = "login"]_vars

\* The stored token was validated and the protected content is rendered.
C22_Witness ==
    /\ Rendered(ui) = "content"
    /\ ui.settled = "ok"
    /\ ui.location = "/"

\* C23: whenever a user is set (isAuthenticated), the token state is non-null
\* and local storage holds the same token.
C23_AuthenticatedHoldsToken ==
    ui.user # {} => ui.tokenState # {} /\ ui.tokenState = ui.token

\* A user logged in, the page was loaded again and the stored token validated.
C23_Witness ==
    /\ ui.starts = 2
    /\ ui.settled = "ok"
    /\ ui.user # {}
    /\ ui.token # {}

\* C24 as stated: when the validation request started at mount fails after a
\* login or register has succeeded (a user is set while the validation is
\* still pending), the stored token and the user stay as the login left them.
C24_LoginSurvivesValidation ==
    [][ui.validation # {} /\ ui.user # {} /\ ui'.settled = "failed" =>
          /\ ui'.token = ui.token
          /\ ui'.tokenState = ui.tokenState
          /\ ui'.user = ui.user]_vars

\* C25: at most one search timer is pending, that of the last value typed;
\* a request is issued only when that timer fires, for the last value typed
\* and only for a value of at least 2 characters; and when the timer of a
\* shorter value fires, no request is issued and the result list is emptied
\* and closed.
C25_OneSearchPerPause ==
    /\ [](Cardinality(ui.timers) <= 1 /\ ui.timers \subseteq {ui.typed})
    /\ [][Len(ui'.searches) > Len(ui.searches) =>
             /\ ui.timers = {ui.typed} /\ ui'.timers = {}
             /\ ui'.searches = Append(ui.searches, ui.typed)
             /\ Len(ui.typed) >= 2]_vars
    /\ [][ui.timers # {} /\ ui'.timers = {} /\ Len(ui.typed) < 2 =>
             /\ ui'.searches = ui.searches
             /\ ui'.results = <<>>
             /\ ~ui'.isOpen]_vars

\* A burst of two keystrokes was followed by one request, for the last value.
C25_Witness ==
    /\ ui.burst = 2
    /\ ui.typed = "abc"
    /\ ui.timers = {}
    /\ ui.searches = <<"abc">>
    /\ ui.issued = {"abc"}

\* C26 as stated: once every issued search has been answered, the results of
\* an open result list are those of the most recently issued query; the
\* answer to an older query that arrives after the answer to a newer one has
\* not replaced them.
C26_ResultsOfLatestQuery ==
    ui.isOpen /\ ui.searches = <<>> =>
        \A k \in DOMAIN ui.results : ui.results[k].query \in ui.issued

\* C27 as stated: whenever the dropdown is open and selectedIndex is at least
\* 0, selectedIndex is less than results.length.
C27_SelectedIndexInRange ==
    ui.isOpen /\ ui.selectedIndex >= 0 => ui.selectedIndex < Len(ui.results)

=============================================================================
